---- MODULE Spec2Model ----
(***************************************************************************)
(* A model of the webrtc-vad crate (src/src/lib.rs): the safe wrapper Vad  *)
(* around a native libfvad detector instance.  The wrapper's code is       *)
(* translated from lib.rs.  The native functions (fvad_new, fvad_free,     *)
(* fvad_reset, fvad_set_sample_rate, fvad_set_mode, fvad_process) are      *)
(* declared in the bindgen module and implemented in resources/libfvad,    *)
(* neither of which is among the source files; they are modelled from the  *)
(* specification (sections 3, 4 and 6) and the doc comments of lib.rs.     *)
(***************************************************************************)
EXTENDS Integers, FiniteSets, Sequences, TLC

VARIABLES
    phase,   \* where the session is: "none", "alloc_failed", "ctor_panicked",
             \* "ready", "unwinding" (a panic is propagating), "dropped"
    fvad,    \* the native instance behind Vad.fvad, with the allocator's bookkeeping
    cfgRate, \* history: the rate of the most recent configuration event
    last     \* history: the most recent call, its arguments, result and pre-state

vars == <<phase, fvad, cfgRate, last>>

\* ---------------------------------------------------------------- bounds

\* Largest abstract frame amplitude a caller submits (0 is the all-zero buffer).
MaxAmp == 2
\* Largest number of frames classified between two resets.
MaxFrames == 3

\* ------------------------------------------------------- enums of lib.rs

VadModes == {"Quality", "LowBitrate", "Aggressive", "VeryAggressive"}

SampleRates == {"Rate8kHz", "Rate16kHz", "Rate32kHz", "Rate48kHz"}

\* `mode as i32`: the discriminants of enum VadMode.
VadModeAsI32(mode) ==
    CASE mode = "Quality" -> 0
      [] mode = "LowBitrate" -> 1
      [] mode = "Aggressive" -> 2
      [] mode = "VeryAggressive" -> 3

\* A slip in one discriminant of SampleRate.
SampleRateAsI32_slip(sample_rate) ==
    CASE sample_rate = "Rate8kHz" -> 8000
      [] sample_rate = "Rate16kHz" -> 16000
      [] sample_rate = "Rate32kHz" -> 32000
      [] sample_rate = "Rate48kHz" -> 44100

\* `sample_rate as i32`: the discriminants of enum SampleRate.
SampleRateAsI32(sample_rate) ==
    CASE sample_rate = "Rate8kHz" -> 8000
      [] sample_rate = "Rate16kHz" -> 16000
      [] sample_rate = "Rate32kHz" -> 32000
      [] sample_rate = "Rate48kHz" -> 48000

\* try_from with 44100 admitted as if it were a supported rate.
TryFrom_lenient(item) ==
    CASE item = 8000 -> [ok |-> TRUE, val |-> "Rate8kHz"]
      [] item = 16000 -> [ok |-> TRUE, val |-> "Rate16kHz"]
      [] item = 32000 -> [ok |-> TRUE, val |-> "Rate32kHz"]
      [] item = 48000 -> [ok |-> TRUE, val |-> "Rate48kHz"]
      [] item = 44100 -> [ok |-> TRUE, val |-> "Rate48kHz"]
      [] OTHER -> [ok |-> FALSE, val |-> "Invalid sample rate"]

\* impl TryFrom<i32> for SampleRate.
TryFrom(item) ==
    CASE item = 8000 -> [ok |-> TRUE, val |-> "Rate8kHz"]
      [] item = 16000 -> [ok |-> TRUE, val |-> "Rate16kHz"]
      [] item = 32000 -> [ok |-> TRUE, val |-> "Rate32kHz"]
      [] item = 48000 -> [ok |-> TRUE, val |-> "Rate48kHz"]
      [] OTHER -> [ok |-> FALSE, val |-> "Invalid sample rate"]

\* ------------------------------------------- the native library (libfvad)

\* The rates, modes and frame durations the engine supports.
ValidRates == {8000, 16000, 32000, 48000}

ValidModes == 0..3

ValidFrameTimes == {10, 20, 30}

\* The built-in initial priors of the two classes' means.
InitNoise == 0

InitSpeech == MaxAmp

\* No instance: what a failed allocation returns.
NullInst ==
    [status |-> "null", frees |-> 0, misuse |-> FALSE,
     sample_rate |-> 0, mode |-> 0,
     noise |-> 0, speech |-> 0, delay |-> 0, frame_count |-> 0]

\* A native call on an instance that is not live is undefined; it is recorded.
Misused(inst) == [inst EXCEPT !.misuse = TRUE]

\* fvad_reset: every field back to the built-in defaults.
fvad_reset(inst) ==
    IF inst.status # "live" THEN Misused(inst)
    ELSE [inst EXCEPT !.sample_rate = 8000, !.mode = 0,
                      !.noise = InitNoise, !.speech = InitSpeech,
                      !.delay = 0, !.frame_count = 0]

\* fvad_new: allocate, and initialize when the allocation succeeded.
fvad_new(allocOk) ==
    IF allocOk THEN fvad_reset([NullInst EXCEPT !.status = "live"])
    ELSE NullInst

\* fvad_free: release the instance.
fvad_free(inst) ==
    IF inst.status # "live" THEN [Misused(inst) EXCEPT !.frees = @ + 1]
    ELSE [inst EXCEPT !.status = "freed", !.frees = @ + 1]

\* fvad_set_sample_rate storing samples per millisecond instead of Hz.
fvad_set_sample_rate_perms(inst, sample_rate) ==
    IF inst.status # "live" THEN [inst |-> Misused(inst), rv |-> -1]
    ELSE IF sample_rate \in ValidRates
         THEN [inst |-> [inst EXCEPT !.sample_rate = sample_rate \div 1000], rv |-> 0]
         ELSE [inst |-> inst, rv |-> -1]

\* fvad_set_sample_rate: 0 and the rate stored, or -1 and nothing changed.
fvad_set_sample_rate(inst, sample_rate) ==
    IF inst.status # "live" THEN [inst |-> Misused(inst), rv |-> -1]
    ELSE IF sample_rate \in ValidRates
         THEN [inst |-> [inst EXCEPT !.sample_rate = sample_rate], rv |-> 0]
         ELSE [inst |-> inst, rv |-> -1]

\* fvad_set_mode: 0 and the mode stored, or -1 and nothing changed.
fvad_set_mode(inst, mode) ==
    IF inst.status # "live" THEN [inst |-> Misused(inst), rv |-> -1]
    ELSE IF mode \in ValidModes
         THEN [inst |-> [inst EXCEPT !.mode = mode], rv |-> 0]
         ELSE [inst |-> inst, rv |-> -1]

\* A frame is valid when it lasts 10, 20 or 30 ms at the configured rate.
ValidLength(rate, length) ==
    \E t \in ValidFrameTimes : length = t * (rate \div 1000)

Abs(x) == IF x < 0 THEN -x ELSE x

Max(x, y) == IF x < y THEN y ELSE x

\* Resampler: N samples at the input rate become N / (rate/8000) at 8 kHz;
\* decimating an all-zero frame gives an all-zero frame.
Resample(rate, buf) ==
    [len |-> buf.len \div (rate \div 8000), amp |-> buf.amp]

\* Filterbank: the frame's band energy, with what the delay line still holds
\* of the previous frame.
Energy(frame, delay) == Max(frame.amp, delay \div 2)

\* The likelihood ratio of speech against non-speech for an observed energy.
Score(inst, e) == Abs(e - inst.noise) - Abs(e - inst.speech)

\* The per-mode decision threshold, stricter as the mode rises.
Threshold(mode) == mode

\* One step of a mean towards the observed energy.
Toward(mean, e) == IF mean < e THEN mean + 1 ELSE IF mean > e THEN mean - 1 ELSE mean

\* fvad_process: -1 for an invalid length and nothing changed; otherwise the
\* decision (1 or 0), with the mixtures adapted and the delay line advanced.
fvad_process(inst, buf) ==
    IF inst.status # "live" THEN [inst |-> Misused(inst), rv |-> -1]
    ELSE IF ~ValidLength(inst.sample_rate, buf.len) THEN [inst |-> inst, rv |-> -1]
    ELSE LET frame == Resample(inst.sample_rate, buf)
             e == Energy(frame, inst.delay)
             s == Score(inst, e)
         IN  [inst |-> [inst EXCEPT
                          !.noise = IF s > 0 THEN @ ELSE Toward(@, e),
                          !.speech = IF s > 0 THEN Toward(@, e) ELSE @,
                          !.delay = frame.amp,
                          !.frame_count = @ + 1],
              rv |-> IF s > Threshold(inst.mode) THEN 1 ELSE 0]

\* ------------------------------------------------------ the wrapper Vad

\* set_sample_rate that never reaches the native setter.
SetSampleRate_skipped(v, sample_rate) == [vad |-> v, panic |-> FALSE]

\* Vad::set_sample_rate: the cast, the native call, and the assertion on it.
SetSampleRate(v, sample_rate) ==
    LET r == fvad_set_sample_rate(v, SampleRateAsI32(sample_rate))
    IN  [vad |-> r.inst, panic |-> r.rv # 0]

\* Vad::set_mode: the cast, the native call, and the assertion on it.
SetMode(v, mode) ==
    LET r == fvad_set_mode(v, VadModeAsI32(mode))
    IN  [vad |-> r.inst, panic |-> r.rv # 0]

\* reset that leaves the instance as it is.
Reset_noop(v) == v

\* Vad::reset.
Reset(v) == fvad_reset(v)

\* drop that leaks the native instance.
DropVad_leak(v) == v

\* impl Drop for Vad.
DropVad(v) == fvad_free(v)

\* is_voice_segment with the two decisions exchanged.
IsVoiceSegment_swapped(v, buf) ==
    IF buf.len = 0 THEN [vad |-> v, result |-> "panic"]
    ELSE LET r == fvad_process(v, buf)
         IN  [vad |-> r.inst,
              result |-> CASE r.rv = 1 -> "Ok(false)"
                           [] r.rv = 0 -> "Ok(true)"
                           [] OTHER -> "Err(())"]

\* Vad::is_voice_segment: &buffer[0] is a bounds-checked index, so an empty
\* buffer panics before the native call; otherwise the native result is mapped.
IsVoiceSegment(v, buf) ==
    IF buf.len = 0 THEN [vad |-> v, result |-> "panic"]
    ELSE LET r == fvad_process(v, buf)
         IN  [vad |-> r.inst,
              result |-> CASE r.rv = 1 -> "Ok(true)"
                           [] r.rv = 0 -> "Ok(false)"
                           [] OTHER -> "Err(())"]

\* Vad::new_with_rate_and_mode.  A panic after `instance` exists unwinds
\* through its drop.
NewWithRateAndMode(sample_rate, mode, allocOk) ==
    LET a == fvad_new(allocOk)
    IN  IF a.status = "null" THEN [vad |-> a, phase |-> "alloc_failed"]
        ELSE LET s == SetSampleRate(a, sample_rate)
             IN  IF s.panic THEN [vad |-> DropVad(s.vad), phase |-> "ctor_panicked"]
                 ELSE LET m == SetMode(s.vad, mode)
                      IN  IF m.panic
                          THEN [vad |-> DropVad(m.vad), phase |-> "ctor_panicked"]
                          ELSE [vad |-> m.vad, phase |-> "ready"]

\* Vad::new.
New(allocOk) == NewWithRateAndMode("Rate8kHz", "Quality", allocOk)

\* Vad::new_with_rate.
NewWithRate(sample_rate, allocOk) == NewWithRateAndMode(sample_rate, "Quality", allocOk)

\* new_with_mode that forgets its argument.
NewWithMode_forgetful(mode, allocOk) == NewWithRateAndMode("Rate8kHz", "Quality", allocOk)

\* Vad::new_with_mode.
NewWithMode(mode, allocOk) == NewWithRateAndMode("Rate8kHz", mode, allocOk)

\* impl Default for Vad.
Default(allocOk) == New(allocOk)

\* ------------------------------------------------------- what callers pass

\* Integers a caller may hand to SampleRate::try_from.
Items == {0, 8, 8000, 16000, 32000, 44100, 48000, 96000, -8000}

\* Buffer lengths a caller may submit: empty, one sample, a 12.5 ms frame,
\* and every 10/20/30 ms frame of every supported rate.
Lengths ==
    {0, 1, 100} \cup {t * (r \div 1000) : t \in ValidFrameTimes, r \in ValidRates}

Amps == 0..MaxAmp

Buffers == [len : Lengths, amp : Amps]

Constructors == {"new", "default", "new_with_rate", "new_with_mode", "new_with_rate_and_mode"}

NoCall ==
    [op |-> "none", sr |-> "-", mode |-> "-", item |-> 0,
     buf |-> [len |-> 0, amp |-> 0], result |-> "-", pre |-> NullInst]

\* ---------------------------------------------------------------- actions

Init ==
    /\ phase = "none"
    /\ fvad = NullInst
    /\ cfgRate = 0
    /\ last = NoCall

\* The common transition of the constructors.
Constructed(op, sample_rate, mode, c) ==
    /\ phase' = c.phase
    /\ fvad' = c.vad
    /\ cfgRate' = IF c.phase # "ready" THEN cfgRate
                  ELSE IF sample_rate = "-" THEN 8000 ELSE SampleRateAsI32(sample_rate)
    /\ last' = [NoCall EXCEPT !.op = op, !.sr = sample_rate, !.mode = mode,
                              !.result = IF c.phase = "ready" THEN "Vad" ELSE "panic",
                              !.pre = fvad]

CallNew ==
    /\ phase = "none"
    /\ \E allocOk \in BOOLEAN :
          Constructed("new", "-", "-", New(allocOk))

CallDefault ==
    /\ phase = "none"
    /\ \E allocOk \in BOOLEAN :
          Constructed("default", "-", "-", Default(allocOk))

CallNewWithRate ==
    /\ phase = "none"
    /\ \E sample_rate \in SampleRates, allocOk \in BOOLEAN :
          Constructed("new_with_rate", sample_rate, "-", NewWithRate(sample_rate, allocOk))

CallNewWithMode ==
    /\ phase = "none"
    /\ \E mode \in VadModes, allocOk \in BOOLEAN :
          Constructed("new_with_mode", "-", mode, NewWithMode(mode, allocOk))

CallNewWithRateAndMode ==
    /\ phase = "none"
    /\ \E sample_rate \in SampleRates, mode \in VadModes, allocOk \in BOOLEAN :
          Constructed("new_with_rate_and_mode", sample_rate, mode,
                      NewWithRateAndMode(sample_rate, mode, allocOk))

CallSetSampleRate ==
    /\ phase = "ready"
    /\ \E sample_rate \in SampleRates :
          LET r == SetSampleRate(fvad, sample_rate)
          IN  /\ fvad' = r.vad
              /\ phase' = IF r.panic THEN "unwinding" ELSE "ready"
              /\ cfgRate' = IF r.panic THEN cfgRate ELSE SampleRateAsI32(sample_rate)
              /\ last' = [NoCall EXCEPT !.op = "set_sample_rate", !.sr = sample_rate,
                                        !.result = IF r.panic THEN "panic" ELSE "()",
                                        !.pre = fvad]

\* A caller converting an integer and configuring the rate only when the
\* conversion succeeded.
CallConfigure ==
    /\ phase = "ready"
    /\ \E item \in Items :
          LET t == TryFrom(item)
              r == IF t.ok THEN SetSampleRate(fvad, t.val) ELSE [vad |-> fvad, panic |-> FALSE]
          IN  /\ fvad' = r.vad
              /\ phase' = IF r.panic THEN "unwinding" ELSE "ready"
              /\ cfgRate' = IF t.ok /\ ~r.panic THEN SampleRateAsI32(t.val) ELSE cfgRate
              /\ last' = [NoCall EXCEPT !.op = "configure", !.item = item,
                                        !.sr = IF t.ok THEN t.val ELSE "-",
                                        !.result = IF ~t.ok THEN "Err"
                                                   ELSE IF r.panic THEN "panic" ELSE "Ok",
                                        !.pre = fvad]

CallSetMode ==
    /\ phase = "ready"
    /\ \E mode \in VadModes :
          LET r == SetMode(fvad, mode)
          IN  /\ fvad' = r.vad
              /\ phase' = IF r.panic THEN "unwinding" ELSE "ready"
              /\ last' = [NoCall EXCEPT !.op = "set_mode", !.mode = mode,
                                        !.result = IF r.panic THEN "panic" ELSE "()",
                                        !.pre = fvad]
              /\ UNCHANGED cfgRate

CallReset ==
    /\ phase = "ready"
    /\ fvad' = Reset(fvad)
    /\ cfgRate' = 8000
    /\ last' = [NoCall EXCEPT !.op = "reset", !.result = "()", !.pre = fvad]
    /\ UNCHANGED phase

CallIsVoiceSegment ==
    /\ phase = "ready"
    /\ fvad.frame_count < MaxFrames
    /\ \E buf \in Buffers :
          LET r == IsVoiceSegment(fvad, buf)
          IN  /\ fvad' = r.vad
              /\ phase' = IF r.result = "panic" THEN "unwinding" ELSE "ready"
              /\ last' = [NoCall EXCEPT !.op = "is_voice_segment", !.buf = buf,
                                        !.result = r.result, !.pre = fvad]
              /\ UNCHANGED cfgRate

\* The Vad goes out of scope, normally or while a panic unwinds.
CallDrop ==
    /\ phase \in {"ready", "unwinding"}
    /\ fvad' = DropVad(fvad)
    /\ phase' = "dropped"
    /\ UNCHANGED <<cfgRate, last>>

Next ==
    \/ CallNew
    \/ CallDefault
    \/ CallNewWithRate
    \/ CallNewWithMode
    \/ CallNewWithRateAndMode
    \/ CallSetSampleRate
    \/ CallConfigure
    \/ CallSetMode
    \/ CallReset
    \/ CallIsVoiceSegment
    \/ CallDrop

Spec == Init /\ [][Next]_vars

\* ------------------------------------------------------------ properties

Decisions == {"Ok(true)", "Ok(false)"}

\* The 10, 20 and 30 ms frame lengths of a rate in Hz.
FrameLengths(hz) == {hz \div 100, 2 * (hz \div 100), 3 * (hz \div 100)}

\* The rate in Hz and the mode number a caller means by an enum value.
HzOf(sr) ==
    CASE sr = "Rate8kHz" -> 8000 [] sr = "Rate16kHz" -> 16000
      [] sr = "Rate32kHz" -> 32000 [] sr = "Rate48kHz" -> 48000 [] OTHER -> 8000

ModeOf(m) ==
    CASE m = "Quality" -> 0 [] m = "LowBitrate" -> 1
      [] m = "Aggressive" -> 2 [] m = "VeryAggressive" -> 3 [] OTHER -> 0

\* Nothing adapted yet: initial priors, cleared delay line and frame counter.
Fresh(v) ==
    /\ v.status = "live"
    /\ v.noise = InitNoise /\ v.speech = InitSpeech
    /\ v.delay = 0 /\ v.frame_count = 0

\* C1: a call to is_voice_segment with a buffer whose length is not a 10, 20
\* or 30 ms frame at the configured rate returns Err and leaves the whole
\* state (rate, mode, mixtures, delay line) as it was before the call.
C1_InvalidLengthRejected ==
    (last.op = "is_voice_segment"
       /\ last.buf.len \notin FrameLengths(last.pre.sample_rate))
    => (last.result = "Err(())" /\ (phase = "ready" => fvad = last.pre))

\* C2: on a fresh state (just constructed or just reset, then configured to
\* any rate), an all-zero buffer of 10, 20 or 30 ms is accepted and classified
\* as non-speech, at every supported rate alike.
C2_SilenceOnFresh ==
    /\ (last.op = "is_voice_segment" /\ Fresh(last.pre) /\ last.buf.amp = 0
          /\ last.buf.len \in FrameLengths(last.pre.sample_rate))
       => last.result = "Ok(false)"
    /\ (phase = "ready" /\ Fresh(fvad))
       => \A sr \in SampleRates, t \in ValidFrameTimes :
             LET c == SetSampleRate(fvad, sr)
             IN  /\ ~c.panic
                 /\ IsVoiceSegment(c.vad, [len |-> (HzOf(sr) * t) \div 1000, amp |-> 0]).result
                      = "Ok(false)"

C2_Witness ==
    /\ last.op = "is_voice_segment" /\ Fresh(last.pre)
    /\ last.pre.sample_rate = 48000 /\ last.buf = [len |-> 1440, amp |-> 0]
    /\ last.result = "Ok(false)"

\* C3: converting an integer outside {8000,16000,32000,48000} fails, the
\* setter is not reached and the state is untouched; an integer inside the set
\* converts and becomes the configured rate.
C3_InvalidRateRejected ==
    last.op = "configure" =>
       IF last.item \in {8000, 16000, 32000, 48000}
       THEN last.result = "Ok" /\ (phase = "ready" => fvad.sample_rate = last.item)
       ELSE last.result = "Err" /\ (phase = "ready" => fvad = last.pre)

C3_Witness ==
    /\ last.op = "configure" /\ last.item = 44100 /\ last.result = "Err"
    /\ phase = "ready" /\ fvad = last.pre
    /\ fvad.sample_rate = 16000 /\ fvad.frame_count > 0

\* C4: reset leaves exactly the state Vad::new() produces (8000 Hz, mode 0,
\* initial priors, cleared delay line and counter), whatever came before; so a
\* second reset changes nothing.
C4_ResetToDefaults ==
    /\ (last.op = "reset" /\ phase = "ready") => fvad = New(TRUE).vad
    /\ phase = "ready" =>
          /\ Reset(fvad) = New(TRUE).vad
          /\ Reset(Reset(fvad)) = Reset(fvad)

C4_Witness ==
    /\ last.op = "reset" /\ phase = "ready"
    /\ last.pre.sample_rate = 48000 /\ last.pre.mode = 3
    /\ last.pre.noise # InitNoise /\ last.pre.delay # 0 /\ last.pre.frame_count > 1
    /\ fvad = New(TRUE).vad

\* C5: a constructor that returns hands over a ready instance with the rate
\* and mode its arguments ask for (8000 Hz and mode 0 where it has none), and
\* with nothing adapted; no constructor panics after the allocation succeeded.
C5_ConstructedAsRequested ==
    last.op \in Constructors =>
       /\ phase # "ctor_panicked"
       /\ last.result = "Vad" <=> phase \in {"ready", "dropped"}
       /\ phase = "ready" =>
             /\ fvad.sample_rate = (IF last.op \in {"new_with_rate", "new_with_rate_and_mode"}
                                    THEN HzOf(last.sr) ELSE 8000)
             /\ fvad.mode = (IF last.op \in {"new_with_mode", "new_with_rate_and_mode"}
                             THEN ModeOf(last.mode) ELSE 0)
             /\ Fresh(fvad)

C5_Witness ==
    /\ last.op = "new_with_mode" /\ last.mode = "Aggressive"
    /\ phase = "ready" /\ fvad.sample_rate = 8000 /\ fvad.mode = 2

\* C6: while the instance lives, its sample rate is one of the four supported
\* rates and its mode is one of 0..3.
C6_ConfigInRange ==
    fvad.status = "live" =>
       /\ fvad.sample_rate \in {8000, 16000, 32000, 48000}
       /\ fvad.mode \in {0, 1, 2, 3}

C6_Witness ==
    /\ last.op = "is_voice_segment" /\ last.result = "Err(())"
    /\ phase = "ready" /\ fvad.sample_rate = 32000 /\ fvad.mode = 3
    /\ fvad.frame_count > 0

\* C7: set_sample_rate and set_mode return () for every enum value, in every
\* state: the assertion on the native setter's result never fails.
C7_SettersNeverPanic ==
    /\ last.op \in {"set_sample_rate", "set_mode"} => last.result = "()"
    /\ phase = "ready" =>
          /\ \A sr \in SampleRates : ~SetSampleRate(fvad, sr).panic
          /\ \A m \in VadModes : ~SetMode(fvad, m).panic

C7_Witness ==
    /\ last.op = "set_sample_rate" /\ last.sr = "Rate48kHz" /\ last.result = "()"
    /\ last.pre.sample_rate = 16000 /\ last.pre.frame_count > 0

\* C8: an allocated instance is released exactly once, when the Vad is dropped
\* (also while a panic unwinds), and no native call is made on an instance that
\* is not live; a failed allocation yields no Vad, and nothing is released.
C8_ReleasedExactlyOnce ==
    /\ ~fvad.misuse
    /\ fvad.frees <= 1
    /\ phase \in {"none", "alloc_failed"} => (fvad.status = "null" /\ fvad.frees = 0)
    /\ phase \in {"ready", "unwinding"} => (fvad.status = "live" /\ fvad.frees = 0)
    /\ phase \in {"dropped", "ctor_panicked"} => (fvad.status = "freed" /\ fvad.frees = 1)

C8_Witness ==
    /\ phase = "dropped" /\ fvad.status = "freed" /\ fvad.frees = 1
    /\ last.op = "is_voice_segment" /\ last.result = "Ok(true)"

\* C9: the buffer lengths that get a decision are exactly the 10, 20 and 30 ms
\* frames of the rate of the most recent configuration event (construction,
\* set_sample_rate, reset to 8000 Hz); set_mode and is_voice_segment leave the
\* accepted set alone.
C9_AcceptedFollowsConfig ==
    /\ phase = "ready" =>
          \A L \in Lengths, a \in Amps :
             IsVoiceSegment(fvad, [len |-> L, amp |-> a]).result \in Decisions
                <=> L \in FrameLengths(cfgRate)
    /\ last.op = "is_voice_segment" =>
          (last.result \in Decisions <=> last.buf.len \in FrameLengths(cfgRate))
    /\ (last.op = "reset" /\ phase = "ready") => cfgRate = 8000

C9_Witness ==
    /\ last.op = "reset" /\ phase = "ready" /\ last.pre.sample_rate = 48000
    /\ IsVoiceSegment(last.pre, [len |-> 480, amp |-> 1]).result \in Decisions
    /\ IsVoiceSegment(fvad, [len |-> 480, amp |-> 1]).result = "Err(())"
    /\ IsVoiceSegment(fvad, [len |-> 80, amp |-> 1]).result \in Decisions

\* C10: is_voice_segment returns a Result for every buffer length and never
\* panics; for the empty buffer it returns Err(()) and the session stays as it
\* was, usable for later calls.
C10_EveryLengthReturns ==
    last.op = "is_voice_segment" =>
       /\ last.result \in Decisions \cup {"Err(())"}
       /\ last.buf.len = 0 =>
             (last.result = "Err(())" /\ phase \in {"ready", "dropped"})

====
